---- MODULE Spec2Model ----
(***************************************************************************)
(* Franchise Pro Calculator: the metrics derivation of App (src/App.tsx,   *)
(* the useEffect at lines 414-491), the projection generator of            *)
(* ReportGenerator (src/App.tsx, generateData at lines 78-134) with its    *)
(* CSV export under the three currencies, and App's location search,       *)
(* device-location lookup and audit handlers with the two service modules  *)
(* they can be wired to (src/services/geminiService.ts,                    *)
(* src/unnamed/part_000).                                                  *)
(*                                                                         *)
(* JavaScript numbers are modelled as exact rationals n/d in lowest terms  *)
(* (d > 0), extended with the three IEEE-754 special values a division can *)
(* produce: +Infinity (1/0), -Infinity (-1/0) and NaN (0/0).  Rounding of  *)
(* binary floating point and the sign of zero are not modelled.            *)
(*                                                                         *)
(* React runs the metrics effect of a render before the next event handler *)
(* or promise continuation: derived is FALSE between an input change and   *)
(* the effect, and every handler waits for it.  Texts are sequences of     *)
(* string tokens.  The initial loading timer, the alert dialogs and the    *)
(* name of the exported file are outside the model.                        *)
(***************************************************************************)
EXTENDS Integers, Sequences, FiniteSets, TLC

VARIABLES
    inputs,       \* App's financial input state (useState, lines 371-389)
    metrics,      \* App's metrics state (lines 392-404)
    derived,      \* TRUE once the metrics effect has run after mount
    activeTab,    \* App's activeTab state; ReportGenerator is rendered on "results"
    config,       \* ReportGenerator's durationYears / interval / growthRate state
    reportData,   \* rows produced by the last render of ReportGenerator
    service,      \* the service module App's import resolves to
    locationQuery,\* App's locationQuery state (line 353)
    country,      \* App's country state (line 354)
    isAnalyzing,  \* App's isAnalyzing state (line 356)
    locationData, \* App's locationData state (line 357)
    locationCall, \* the analyzeLocation call handleLocationSearch awaits, or Null
    isCalculating,\* App's isCalculating state (line 364)
    bankerData,   \* App's bankerData state (line 368)
    auditCall,    \* the audit handleCalculateProfitability awaits, or Null
    currencyCode, \* App's currencyCode state (line 330)
    csvContent,   \* the text of the last file handleDownloadCSV produced, <<>> before the first
    industry,     \* App's industry state (line 355)
    isLocating,   \* App's isLocating state (line 360)
    geoCall       \* the device-location lookup in flight, or Null

repVars == <<config, reportData>>

locVars == <<locationQuery, country, isAnalyzing, locationData, locationCall>>

auditVars == <<isCalculating, bankerData, auditCall>>

exportVars == <<currencyCode, csvContent>>

geoVars == <<industry, isLocating, geoCall>>

vars == <<inputs, metrics, derived, activeTab, config, reportData, service,
          locationQuery, country, isAnalyzing, locationData, locationCall,
          isCalculating, bankerData, auditCall, currencyCode, csvContent,
          industry, isLocating, geoCall>>

----------------------------------------------------------------------------
(* Bounds of the explored input space *)

MaxFee == 1
MaxTicket == 1
MaxCust == 1
MaxDays == 1
MaxCogsSteps == 2
MaxRent == 1
MaxDuration == 3

----------------------------------------------------------------------------
(* JavaScript number arithmetic *)

Abs(x) == IF x < 0 THEN -x ELSE x

Sign(x) == IF x < 0 THEN -1 ELSE IF x > 0 THEN 1 ELSE 0

RECURSIVE GCD(_, _)
GCD(a, b) == IF b = 0 THEN a ELSE GCD(b, a % b)

\* the number n/d; d = 0 gives Infinity, -Infinity or NaN by the sign of n
Norm(n, d) ==
    IF d = 0 THEN [n |-> Sign(n), d |-> 0]
    ELSE LET g == GCD(Abs(n), Abs(d))
             s == IF d < 0 THEN -1 ELSE 1
         IN [n |-> (s * n) \div g, d |-> (s * d) \div g]

Num(i) == [n |-> i, d |-> 1]

Zero == Num(0)

NaN == [n |-> 0, d |-> 0]

IsFinite(a) == a.d # 0

Neg(a) == [n |-> -a.n, d |-> a.d]

Add(a, b) ==
    IF a.d = 0 /\ b.d = 0 THEN (IF a.n = b.n THEN a ELSE NaN)
    ELSE IF a.d = 0 THEN a
    ELSE IF b.d = 0 THEN b
    ELSE LET g == GCD(a.d, b.d)
         IN Norm(a.n * (b.d \div g) + b.n * (a.d \div g), (a.d \div g) * b.d)

Sub(a, b) == Add(a, Neg(b))

Mul(a, b) ==
    IF a.d = 0 \/ b.d = 0 THEN Norm(a.n * b.n, 0)
    ELSE LET g1 == GCD(Abs(a.n), b.d)
             g2 == GCD(Abs(b.n), a.d)
         IN Norm((a.n \div g1) * (b.n \div g2), (a.d \div g2) * (b.d \div g1))

Div(a, b) ==
    LET s == IF b.n < 0 THEN -1 ELSE 1
    IN Mul(a, Norm(s * b.d, s * b.n))

\* a > b; every comparison with NaN is false
Gt(a, b) ==
    IF (a.d = 0 /\ a.n = 0) \/ (b.d = 0 /\ b.n = 0) THEN FALSE
    ELSE IF a.d = 0 /\ b.d = 0 THEN a.n > b.n
    ELSE IF a.d = 0 THEN a.n > 0
    ELSE IF b.d = 0 THEN b.n < 0
    ELSE a.n * b.d > b.n * a.d

Lt(a, b) == Gt(b, a)

----------------------------------------------------------------------------
(* The metrics effect of App, src/App.tsx lines 414-491 *)

Hundred == Num(100)

Twelve == Num(12)

\* const targetNetMargin = 0.10, and the 0.10 of totalInv * 0.10
TargetNetMargin == Norm(10, 100)

\* 1. Total Initial Investment
TotalInv(inp) ==
    Add(Add(Add(inp.franchiseFee, inp.buildOut), inp.equipment), inp.workingCapital)

\* variant of AnnualRev: a negative revenue clamped to 0
AnnualRev_Clamped(inp) ==
    LET r == Mul(Mul(inp.avgTicket, inp.dailyCust), inp.daysOpen)
    IN IF Lt(r, Zero) THEN Zero ELSE r

\* 2. Revenue Calculation
AnnualRev(inp) == Mul(Mul(inp.avgTicket, inp.dailyCust), inp.daysOpen)

\* variant of TotalAnnualExpenses: royalties are not charged
TotalAnnualExpenses_NoRoyalties(inp) ==
    LET annualRev == Mul(Mul(inp.avgTicket, inp.dailyCust), inp.daysOpen)
        variable  == Add(inp.cogsPercent, Add(inp.laborPercent, inp.marketingPercent))
        fixed     == Add(inp.rentMonthly, Add(inp.salariesMonthly, inp.miscMonthly))
    IN Add(Mul(annualRev, Div(variable, Hundred)), Mul(fixed, Twelve))

\* 3-5. variable costs, fixed costs and their total
TotalAnnualExpenses(inp) ==
    LET annualRev == AnnualRev(inp)
        cogs      == Mul(annualRev, Div(inp.cogsPercent, Hundred))
        labor     == Mul(annualRev, Div(inp.laborPercent, Hundred))
        royalties == Mul(annualRev, Div(inp.royaltyPercent, Hundred))
        marketing == Mul(annualRev, Div(inp.marketingPercent, Hundred))
        rent      == Mul(inp.rentMonthly, Twelve)
        salaries  == Mul(inp.salariesMonthly, Twelve)
        misc      == Mul(inp.miscMonthly, Twelve)
    IN Add(Add(Add(Add(Add(Add(cogs, labor), royalties), marketing), rent), salaries), misc)

\* variant of AnnualNetProfit: a loss is reported as 0
AnnualNetProfit_Clamped(inp) ==
    IF Lt(AnnualRev(inp), TotalAnnualExpenses(inp)) THEN Zero
    ELSE Sub(AnnualRev(inp), TotalAnnualExpenses(inp))

\* annualRev - totalAnnualExpenses (line 434)
AnnualNetProfit(inp) == Sub(AnnualRev(inp), TotalAnnualExpenses(inp))

MonthlyNetProfit(inp) == Div(AnnualNetProfit(inp), Twelve)

\* variant of PaybackYears: guard annualNetProfit >= 0
PaybackYears_NonNegativeGuard(inp) ==
    IF ~Lt(AnnualNetProfit(inp), Zero)
    THEN Div(TotalInv(inp), AnnualNetProfit(inp))
    ELSE Zero

\* 6. ROI & Break Even
PaybackYears(inp) ==
    IF Gt(AnnualNetProfit(inp), Zero)
    THEN Div(TotalInv(inp), AnnualNetProfit(inp))
    ELSE Zero

\* variant of BreakEvenM: the investment divided by the annual profit
BreakEvenM_Annual(inp) ==
    IF Gt(AnnualNetProfit(inp), Zero)
    THEN Div(TotalInv(inp), AnnualNetProfit(inp))
    ELSE Zero

BreakEvenM(inp) ==
    IF Gt(AnnualNetProfit(inp), Zero)
    THEN Div(TotalInv(inp), MonthlyNetProfit(inp))
    ELSE Zero

\* variant of MonthlyFixedCosts: miscMonthly left out
MonthlyFixedCosts_NoMisc(inp) == Add(inp.rentMonthly, inp.salariesMonthly)

\* 7. 10% Monthly ROI Calculation ("Wealth Building")
MonthlyFixedCosts(inp) ==
    Add(Add(inp.rentMonthly, inp.salariesMonthly), inp.miscMonthly)

VariableCostPercent(inp) ==
    Add(Add(Add(inp.cogsPercent, inp.laborPercent), inp.royaltyPercent), inp.marketingPercent)

MarginPerCustomer(inp) ==
    Mul(inp.avgTicket, Sub(Num(1), Div(VariableCostPercent(inp), Hundred)))

\* variant of ReqDailyCustomers: no daysOpen > 0 guard
ReqDailyCustomers_NoDaysGuard(inp) ==
    LET targetMonthlyNetROI == Mul(TotalInv(inp), TargetNetMargin)
        requiredMonthlyContributionROI == Add(targetMonthlyNetROI, MonthlyFixedCosts(inp))
    IN IF Gt(MarginPerCustomer(inp), Zero)
       THEN LET requiredMonthlyCustomers ==
                    Div(requiredMonthlyContributionROI, MarginPerCustomer(inp))
            IN Div(requiredMonthlyCustomers, Div(inp.daysOpen, Twelve))
       ELSE Zero

ReqDailyCustomers(inp) ==
    LET targetMonthlyNetROI == Mul(TotalInv(inp), TargetNetMargin)
        requiredMonthlyContributionROI == Add(targetMonthlyNetROI, MonthlyFixedCosts(inp))
    IN IF Gt(MarginPerCustomer(inp), Zero) /\ Gt(inp.daysOpen, Zero)
       THEN LET requiredMonthlyCustomers ==
                    Div(requiredMonthlyContributionROI, MarginPerCustomer(inp))
            IN Div(requiredMonthlyCustomers, Div(inp.daysOpen, Twelve))
       ELSE Zero

\* variant of Denominator: the target margin not subtracted
Denominator_NoTarget(inp) ==
    LET variableRatio == Div(VariableCostPercent(inp), Hundred)
    IN Sub(Num(1), variableRatio)

\* 8. 10% Net Profit Margin Calculation (Operational Safety)
Denominator(inp) ==
    LET variableRatio == Div(VariableCostPercent(inp), Hundred)
    IN Sub(Sub(Num(1), variableRatio), TargetNetMargin)

\* variant of ReqDailyCustomersForMargin: monthly instead of annual fixed costs
ReqDailyCustomersForMargin_MonthlyFixed(inp) ==
    IF Gt(Denominator(inp), Zero)
    THEN LET requiredAnnualRevenueForMargin == Div(MonthlyFixedCosts(inp), Denominator(inp))
         IN Div(Div(requiredAnnualRevenueForMargin, inp.daysOpen), inp.avgTicket)
    ELSE Zero

ReqDailyCustomersForMargin(inp) ==
    IF Gt(Denominator(inp), Zero)
    THEN LET annualFixedCosts == Mul(MonthlyFixedCosts(inp), Twelve)
             requiredAnnualRevenueForMargin == Div(annualFixedCosts, Denominator(inp))
         IN Div(Div(requiredAnnualRevenueForMargin, inp.daysOpen), inp.avgTicket)
    ELSE Zero

\* variant of Margin: guard annualRev >= 0
Margin_NonNegativeGuard(inp) ==
    IF ~Lt(AnnualRev(inp), Zero)
    THEN Mul(Div(AnnualNetProfit(inp), AnnualRev(inp)), Hundred)
    ELSE Zero

Margin(inp) ==
    IF Gt(AnnualRev(inp), Zero)
    THEN Mul(Div(AnnualNetProfit(inp), AnnualRev(inp)), Hundred)
    ELSE Zero

\* the record passed to setMetrics
DeriveMetrics(inp) ==
    [ totalInvestment |-> TotalInv(inp),
      annualRevenue |-> AnnualRev(inp),
      annualExpenses |-> TotalAnnualExpenses(inp),
      netProfit |-> AnnualNetProfit(inp),
      monthlyNet |-> MonthlyNetProfit(inp),
      roiYears |-> PaybackYears(inp),
      breakEvenMonths |-> BreakEvenM(inp),
      margin |-> Margin(inp),
      contractTerm |-> inp.contractTerm,
      requiredDailyCustomers |-> ReqDailyCustomers(inp),
      requiredDailyCustomersForMargin |-> ReqDailyCustomersForMargin(inp) ]

\* useState<FinancialMetrics>({...}) before the effect has run
InitialMetrics ==
    [ totalInvestment |-> Zero, annualRevenue |-> Zero, annualExpenses |-> Zero,
      netProfit |-> Zero, monthlyNet |-> Zero, roiYears |-> Zero,
      breakEvenMonths |-> Zero, margin |-> Zero, contractTerm |-> Zero,
      requiredDailyCustomers |-> Zero, requiredDailyCustomersForMargin |-> Zero ]

----------------------------------------------------------------------------
(* Currencies, src/constants.ts *)

\* JavaScript null
Null == [null |-> TRUE]

CURRENCIES ==
    [ USD |-> [code |-> "USD", locale |-> "en-US"],
      EUR |-> [code |-> "EUR", locale |-> "de-DE"],
      INR |-> [code |-> "INR", locale |-> "en-IN"] ]

DEFAULT_CURRENCY == "INR"

\* const currency = CURRENCIES[currencyCode] (App.tsx line 331)
currency == CURRENCIES[currencyCode]

----------------------------------------------------------------------------
(* ReportGenerator, src/App.tsx lines 72-136 *)

\* the abbreviated month names of the locales of CURRENCIES
MonthShort(locale) ==
    IF locale = "de-DE"
    THEN << "Jan.", "Feb.", "März", "Apr.", "Mai", "Juni",
            "Juli", "Aug.", "Sept.", "Okt.", "Nov.", "Dez." >>
    ELSE << "Jan", "Feb", "Mar", "Apr", "May", "Jun",
            "Jul", "Aug", "Sep", "Oct", "Nov", "Dec" >>

\* a number below 100 written with two digits
TwoDigits(k) == IF k < 10 THEN <<"0", ToString(k)>> ELSE <<ToString(k)>>

\* Date.toLocaleDateString(locale, { month: 'short', year: '2-digit' }) (line
\* 125): a text is the tuple of its fragments
toLocaleDateString(date, locale) ==
    <<MonthShort(locale)[date.month + 1], " ">> \o TwoDigits(date.year % 100)

\* Math.pow(base, k) for the integer exponents currentYearIndex takes
RECURSIVE Pow(_, _)
Pow(base, k) == IF k = 0 THEN Num(1) ELSE Mul(base, Pow(base, k - 1))

\* useState defaults of ReportGenerator; startDate is the [year, month] of the
\* date the component was mounted on
DefaultConfig(start) ==
    [ startDate |-> start, durationYears |-> 1, interval |-> "monthly",
      growthRate |-> Num(5) ]

\* the configuration while ReportGenerator is not mounted: its state does not
\* exist then, and every mount starts from the defaults
Unmounted == DefaultConfig([year |-> 2025, month |-> 0])

\* variant of InitialCash: the balance starts at 0
InitialCash_Zero(m) == Zero

\* variant of InitialCash: the balance continues from the last row of the
\* sequence generated before
InitialCash_Carried(m) ==
    IF reportData # <<>> THEN reportData[Len(reportData)].cashBalance
                         ELSE Neg(m.totalInvestment)

\* let currentCash = -metrics.totalInvestment (line 81)
InitialCash(m) == Neg(m.totalInvestment)

\* variant of EndOfYear: the year closed on its first month
EndOfYear_FirstMonth(i, totalMonths) == i % 12 = 0 \/ i = totalMonths - 1

\* "End of year or end of duration" (line 110)
EndOfYear(i, totalMonths) == (i + 1) % 12 = 0 \/ i = totalMonths - 1

\* variant of growthFactor: simple (linear) instead of compound growth
growthFactor_Linear(growthRate, currentYearIndex) ==
    Add(Num(1), Mul(Div(growthRate, Hundred), Num(currentYearIndex)))

\* Math.pow(1 + (growthRate / 100), currentYearIndex) (line 97)
growthFactor(growthRate, currentYearIndex) ==
    Pow(Add(Num(1), Div(growthRate, Hundred)), currentYearIndex)

\* variant of expenseFactor: expenses grow at the full growth rate
expenseFactor_FullRate(growthRate, currentYearIndex) ==
    Add(Num(1), Mul(Div(growthRate, Hundred), Num(currentYearIndex)))

\* 1 + ((growthRate * 0.5) / 100) * currentYearIndex (line 100)
expenseFactor(growthRate, currentYearIndex) ==
    Add(Num(1), Mul(Div(Mul(growthRate, Norm(1, 2)), Hundred), Num(currentYearIndex)))

\* variant of yearlyProfit: the profit of the year's last month
yearlyProfit_LastMonth(yearlyRevenueAccum, yearlyExpenseAccum, profit) == profit

\* profit of a yearly row: yearlyRevenueAccum - yearlyExpenseAccum (line 116)
yearlyProfit(yearlyRevenueAccum, yearlyExpenseAccum, profit) ==
    Sub(yearlyRevenueAccum, yearlyExpenseAccum)

\* variant of accumAfterPush: the yearly accumulator is not reset
accumAfterPush_Kept(accum) == accum

\* yearlyRevenueAccum = 0; yearlyExpenseAccum = 0 after a yearly row is
\* pushed (lines 119-120)
accumAfterPush(accum) == Zero

\* variant of accumulate: the accumulator keeps the last month only
accumulate_LastMonth(accum, amount) == amount

\* yearlyRevenueAccum += revenue; yearlyExpenseAccum += expense (lines 106-107)
accumulate(accum, amount) == Add(accum, amount)

generateData(m, cfg, cur) ==
    LET monthlyRevenueBase == Div(m.annualRevenue, Twelve)
        monthlyExpenseBase == Div(m.annualExpenses, Twelve)
        totalMonths == cfg.durationYears * 12
        isYearlyView == cfg.interval = "yearly"
        RECURSIVE Loop(_, _, _, _, _)
        Loop(i, currentCash, yearlyRevenueAccum, yearlyExpenseAccum, data) ==
            IF ~(i < totalMonths) THEN data
            ELSE
            LET currentDate == [ year |-> cfg.startDate.year + ((cfg.startDate.month + i) \div 12),
                                 month |-> (cfg.startDate.month + i) % 12 ]
                currentYearIndex == i \div 12
                revenue == Mul(monthlyRevenueBase, growthFactor(cfg.growthRate, currentYearIndex))
                expense == Mul(monthlyExpenseBase, expenseFactor(cfg.growthRate, currentYearIndex))
                profit == Sub(revenue, expense)
                cash == Add(currentCash, profit)
                yRev == accumulate(yearlyRevenueAccum, revenue)
                yExp == accumulate(yearlyExpenseAccum, expense)
            IN IF isYearlyView
               THEN IF EndOfYear(i, totalMonths)
                    THEN Loop(i + 1, cash, accumAfterPush(yRev), accumAfterPush(yExp),
                              Append(data, [ period |-> <<"Year", currentYearIndex + 1>>,
                                             date |-> <<ToString(currentDate.year)>>,
                                             revenue |-> yRev,
                                             expenses |-> yExp,
                                             profit |-> yearlyProfit(yRev, yExp, profit),
                                             cashBalance |-> cash ]))
                    ELSE Loop(i + 1, cash, yRev, yExp, data)
               ELSE Loop(i + 1, cash, yearlyRevenueAccum, yearlyExpenseAccum,
                         Append(data, [ period |-> <<"Month", i + 1>>,
                                        date |-> toLocaleDateString(currentDate, cur.locale),
                                        revenue |-> revenue,
                                        expenses |-> expense,
                                        profit |-> profit,
                                        cashBalance |-> cash ]))
    IN Loop(0, InitialCash(m), Zero, Zero, <<>>)

\* Number.prototype.toFixed(2): the sign, the integer digits, the point and
\* two decimals of the magnitude rounded half up; the names of the values
\* that are not finite
toFixed(x) ==
    IF x.d = 0
    THEN IF x.n = 0 THEN <<"NaN">> ELSE IF x.n > 0 THEN <<"Infinity">> ELSE <<"-Infinity">>
    ELSE LET hundredths == (200 * Abs(x.n) + x.d) \div (2 * x.d)
         IN (IF x.n < 0 THEN <<"-">> ELSE <<>>)
            \o <<ToString(hundredths \div 100), ".">>
            \o TwoDigits(hundredths % 100)

\* Array.prototype.join: the texts of parts with separator between them
RECURSIVE join(_, _)
join(parts, separator) ==
    IF parts = <<>> THEN <<>>
    ELSE IF Len(parts) = 1 THEN parts[1]
    ELSE join(SubSeq(parts, 1, Len(parts) - 1), separator)
         \o <<separator>> \o parts[Len(parts)]

\* variant of csvRow: the profit column is left out
csvRow_NoProfit(row) ==
    join(<< <<row.period[1], " ", ToString(row.period[2])>>,
            row.date,
            toFixed(row.revenue),
            toFixed(row.expenses),
            toFixed(row.cashBalance) >>, ",")

\* one mapped row of handleDownloadCSV (lines 150-158)
csvRow(row) ==
    join(<< <<row.period[1], " ", ToString(row.period[2])>>,
            row.date,
            toFixed(row.revenue),
            toFixed(row.expenses),
            toFixed(row.profit),
            toFixed(row.cashBalance) >>, ",")

\* csvContent of handleDownloadCSV (lines 147-160)
csvText(rows) ==
    LET headers == << <<"Period">>, <<"Date">>, <<"Revenue">>, <<"Expenses">>,
                      <<"Net Profit">>, <<"Cash Balance">> >>
    IN join(<<join(headers, ",")>> \o [n \in 1 .. Len(rows) |-> csvRow(rows[n])], "\n")

----------------------------------------------------------------------------
(* The service modules: src/services/geminiService.ts, which App imports, *)
(* and the fetch-based replacements of src/unnamed/part_000.  A text is a  *)
(* tuple of its fragments, <<>> being the empty string.  A remote response *)
(* is [kind, body]: kind "error" is a request that throws (network error,  *)
(* API error); kind "ok" carries the body the remote side answered with.   *)

\* a promise that has not settled yet
Pending == [pending |-> TRUE]

Fulfilled(v) == [fulfilled |-> TRUE, value |-> v]

Rejected == [fulfilled |-> FALSE, value |-> Null]

Services == {"geminiService", "fetch"}

\* String.prototype.trim on the strings of the model
trim(str) == IF str = " " THEN "" ELSE str

\* the catch branch of geminiService.analyzeLocation (lines 50-57)
LocationFallback(locationQuery_) ==
    [ text |-> <<"Market data for ", locationQuery_, " suggests high variance.">>,
      mapSources |-> <<>> ]

\* geminiService.analyzeLocation (lines 6-58)
analyzeLocation(locationQuery_, response) ==
    IF response.kind = "error"
    THEN Fulfilled(LocationFallback(locationQuery_))
    ELSE Fulfilled([ text |-> IF response.body.text = <<>>
                              THEN <<"No analysis available.">>
                              ELSE response.body.text,
                     mapSources |-> response.body.mapSources ])

\* analyzeLocation of src/unnamed/part_000 (lines 14-21): fetch rejects on a
\* network error, otherwise the JSON body is returned as it is
fetchAnalyzeLocation(location, response) ==
    IF response.kind = "error" THEN Rejected ELSE Fulfilled(response.body)

\* the catch branch of geminiService.getBankerAnalysis (lines 185-195); the
\* five free-text fields of a BankerAudit are left out of every audit record
FallbackAudit ==
    [ verdict |-> "Yellow Light",
      recommendations |-> << "Increase working capital buffer",
                             "Review lease terms for hidden CAM charges",
                             "Stress test for 15% revenue drop" >> ]

\* the JSON text null as a response body
JsonNull == [json |-> "null"]

\* JSON.parse and Response.json on the bodies of the model: the text null
\* yields null, the text of an object yields the object
JSONparse(body) == IF body = JsonNull THEN Null ELSE body

\* geminiService.getBankerAnalysis (lines 91-196): a body of Null is a
\* response without text or with text JSON.parse throws on
getBankerAnalysis(response) ==
    IF response.kind = "error" \/ response.body = Null
    THEN Fulfilled(FallbackAudit)
    ELSE Fulfilled(JSONparse(response.body))

\* getBankerAnalysis of src/unnamed/part_000 (lines 5-12): fetch rejects on a
\* network error and response.json() on a body that is not JSON
fetchGetBankerAnalysis(response) ==
    IF response.kind = "error" \/ response.body = Null
    THEN Rejected
    ELSE Fulfilled(JSONparse(response.body))

\* geminiService.identifyLocationFromCoordinates (lines 60-89): a body of
\* Null is a response without text or with text JSON.parse throws on; the
\* parsed value is returned as it is
identifyLocationFromCoordinates(response) ==
    IF response.kind = "error" \/ response.body = Null
    THEN Fulfilled([city |-> "", country |-> ""])
    ELSE Fulfilled(JSONparse(response.body))

\* what the remote side can answer to a location analysis
AnalysisResponses ==
    { [kind |-> "error", body |-> Null],
      [kind |-> "ok", body |-> [text |-> <<>>, mapSources |-> <<>>]],
      [kind |-> "ok", body |-> [text |-> <<"analysis">>, mapSources |-> <<"source">>]] }

\* what the remote side can answer to an audit
AuditResponses ==
    { [kind |-> "error", body |-> Null],
      [kind |-> "ok", body |-> Null],
      [kind |-> "ok", body |-> JsonNull],
      [kind |-> "ok", body |-> [ verdict |-> "Green Light",
                                 recommendations |-> <<"r1", "r2", "r3">> ]],
      [kind |-> "ok", body |-> [ verdict |-> "Red Light",
                                 recommendations |-> <<"r1", "r2">> ]],
      [kind |-> "ok", body |-> [ verdict |-> "Proceed",
                                 recommendations |-> <<"r1", "r2", "r3">> ]] }

\* what the remote side can answer to a reverse geocode; the response schema
\* (lines 72-78) names city and country and requires neither
GeocodeResponses ==
    { [kind |-> "error", body |-> Null],
      [kind |-> "ok", body |-> Null],
      [kind |-> "ok", body |-> JsonNull],
      [kind |-> "ok", body |-> [city |-> "Mumbai", country |-> "India"]],
      [kind |-> "ok", body |-> [city |-> "", country |-> "India"]],
      [kind |-> "ok", body |-> [city |-> "Mumbai", country |-> ""]],
      [kind |-> "ok", body |-> [city |-> "Mumbai"]] }

\* the remote side failing every audit
AuditFailures == { r \in AuditResponses : r.kind = "error" }

----------------------------------------------------------------------------
(* Input spaces *)

NumSet(S) == { Num(i) : i \in S }

\* the values typed into the fifteen InputGroup fields
InputSpace ==
    [ franchiseFee : NumSet({-6} \cup (0 .. MaxFee)),
      buildOut : NumSet({1}),
      equipment : NumSet({2}),
      workingCapital : NumSet({3}),
      contractTerm : NumSet({10}),
      avgTicket : NumSet(-1 .. MaxTicket),
      dailyCust : NumSet(-1 .. MaxCust),
      daysOpen : NumSet(-1 .. MaxDays),
      cogsPercent : { Num(45 * k) : k \in -1 .. MaxCogsSteps },
      laborPercent : NumSet({35, 45}),
      royaltyPercent : NumSet({5}),
      marketingPercent : NumSet({5}),
      rentMonthly : NumSet({-4, -3} \cup (0 .. MaxRent)),
      salariesMonthly : NumSet({1}),
      miscMonthly : NumSet({2}) ]

\* the inputs behind the metrics the projection is explored for
ProjInputSpace ==
    [ franchiseFee : NumSet({0}),
      buildOut : NumSet({1}),
      equipment : NumSet({2}),
      workingCapital : NumSet({3}),
      contractTerm : NumSet({10}),
      avgTicket : NumSet({1}),
      dailyCust : NumSet({0, 1}),
      daysOpen : NumSet({12}),
      cogsPercent : NumSet({30}),
      laborPercent : NumSet({20}),
      royaltyPercent : NumSet({0}),
      marketingPercent : NumSet({0}),
      rentMonthly : NumSet({-1, 0, 1}),
      salariesMonthly : NumSet({0}),
      miscMonthly : NumSet({0}) ]

\* useState defaults of the fifteen inputs (lines 371-389)
DefaultInputs ==
    [ franchiseFee |-> Num(500000),
      buildOut |-> Num(300000),
      equipment |-> Num(75000),
      workingCapital |-> Num(50000),
      contractTerm |-> Num(10),
      avgTicket |-> Num(100),
      dailyCust |-> Num(50),
      daysOpen |-> Num(320),
      cogsPercent |-> Num(30),
      laborPercent |-> Num(25),
      royaltyPercent |-> Num(6),
      marketingPercent |-> Num(2),
      rentMonthly |-> Num(50000),
      salariesMonthly |-> Num(30000),
      miscMonthly |-> Num(20000) ]

\* the edits of the input tab explored from the defaults: [field, value]
InputEdits ==
    [ field : {"rentMonthly"}, value : NumSet({50000, 5000}) ] \cup
    [ field : {"salariesMonthly"}, value : NumSet({30000, 3000}) ] \cup
    [ field : {"miscMonthly"}, value : NumSet({20000, 2000}) ] \cup
    [ field : {"contractTerm"}, value : NumSet({10, 5}) ] \cup
    [ field : {"dailyCust"}, value : NumSet({50, 0}) ]

\* the inputs, durations and currencies the export is explored for
ExportInputSpace == { inp \in ProjInputSpace : inp.dailyCust = Num(1) }

ExportDurations == {1, 2}

CurrencyCodes == DOMAIN CURRENCIES

\* the strings typed into "City / Region" and "Country"
LocationQueries == {"", " ", "Pune"}

\* what the user types into "Industry"
Industries == {"", "Cafe"}

Countries == {"", "India"}

StartDates == { [year |-> 2025, month |-> 0], [year |-> 2025, month |-> 11] }

\* durationYears: the select offers 1, 3, 5 and 10 (lines 214-217); generateData
\* is explored for every whole number of years from 0 up
Durations == 0 .. MaxDuration

Intervals == {"monthly", "yearly"}

GrowthRates == NumSet({0, 5, 10, 100})

----------------------------------------------------------------------------
(* Actions *)

\* the metrics effect running after mount (lines 414-491)
MetricsEffect ==
    /\ ~derived
    /\ metrics' = DeriveMetrics(inputs)
    /\ derived' = TRUE
    /\ UNCHANGED <<inputs, activeTab, repVars, service, locVars, auditVars,
                   exportVars, geoVars>>

\* the values of the computed customer targets, typed into "Daily Cust."
DailyCustEdits ==
    { v \in {metrics.requiredDailyCustomers, metrics.requiredDailyCustomersForMargin} :
        IsFinite(v) }

\* variant of EffectDeps: contractTerm is missing from the list
EffectDeps_NoContractTerm ==
    { "franchiseFee", "buildOut", "equipment", "workingCapital",
      "avgTicket", "dailyCust", "daysOpen", "cogsPercent", "laborPercent",
      "royaltyPercent", "marketingPercent", "rentMonthly", "salariesMonthly",
      "miscMonthly" }

\* the dependency list of the metrics effect (line 491)
EffectDeps ==
    { "franchiseFee", "buildOut", "equipment", "workingCapital", "contractTerm",
      "avgTicket", "dailyCust", "daysOpen", "cogsPercent", "laborPercent",
      "royaltyPercent", "marketingPercent", "rentMonthly", "salariesMonthly",
      "miscMonthly" }

\* onChange of an InputGroup of the input tab (lines 900-940): the state
\* setter stores the typed number; the render it causes still shows the old
\* metrics, and the metrics effect is scheduled when the field is one of its
\* dependencies.  The loading screen (line 623) replaces the tab while an
\* audit is running.
SetInput(field, v) ==
    /\ derived
    /\ ~isCalculating
    /\ activeTab = "input"
    /\ inputs[field] # v
    /\ inputs' = [inputs EXCEPT ![field] = v]
    /\ derived' = IF field \in EffectDeps THEN FALSE ELSE derived
    /\ UNCHANGED <<metrics, activeTab, repVars, service, locVars, auditVars,
                   exportVars, geoVars>>

\* onChange of the "Daily Cust." InputGroup (line 918)
SetDailyCust(v) == SetInput("dailyCust", v)

\* the tab buttons (lines 766, 772): the results button is disabled while
\* bankerData is null (line 773); the results tab renders ReportGenerator
\* with fresh state (line 1172), the input tab unmounts it
SetActiveTab(tab, today) ==
    /\ derived
    /\ ~isCalculating
    /\ activeTab # tab
    /\ tab = "results" => bankerData # Null
    /\ activeTab' = tab
    /\ config' = IF tab = "results" THEN DefaultConfig(today) ELSE Unmounted
    /\ reportData' = IF tab = "results" THEN generateData(metrics, config', currency) ELSE <<>>
    /\ UNCHANGED <<inputs, metrics, derived, service, locVars, auditVars,
                   exportVars, geoVars>>

\* the four controls of ReportGenerator (lines 203, 211, 224-230, 243); each
\* state change re-renders the component, which calls generateData (line 136)
SetStartDate(d) ==
    /\ activeTab = "results"
    /\ config' = [config EXCEPT !.startDate = d]
    /\ reportData' = generateData(metrics, config', currency)
    /\ UNCHANGED <<inputs, metrics, derived, activeTab, service, locVars, auditVars,
                   exportVars, geoVars>>

SetDurationYears(y) ==
    /\ activeTab = "results"
    /\ config' = [config EXCEPT !.durationYears = y]
    /\ reportData' = generateData(metrics, config', currency)
    /\ UNCHANGED <<inputs, metrics, derived, activeTab, service, locVars, auditVars,
                   exportVars, geoVars>>

SetInterval(iv) ==
    /\ activeTab = "results"
    /\ config' = [config EXCEPT !.interval = iv]
    /\ reportData' = generateData(metrics, config', currency)
    /\ UNCHANGED <<inputs, metrics, derived, activeTab, service, locVars, auditVars,
                   exportVars, geoVars>>

SetGrowthRate(g) ==
    /\ activeTab = "results"
    /\ config' = [config EXCEPT !.growthRate = g]
    /\ reportData' = generateData(metrics, config', currency)
    /\ UNCHANGED <<inputs, metrics, derived, activeTab, service, locVars, auditVars,
                   exportVars, geoVars>>

\* variant of SetCurrencyCode: the amounts are converted at a rate of 2
SetCurrencyCode_Converted(c) ==
    /\ derived
    /\ ~isCalculating
    /\ currencyCode # c
    /\ currencyCode' = c
    /\ reportData' = IF activeTab = "results"
                     THEN generateData([metrics EXCEPT !.annualRevenue = Mul(@, Num(2))],
                                       config, CURRENCIES[c])
                     ELSE reportData
    /\ UNCHANGED <<inputs, metrics, derived, activeTab, config, service, locVars,
                   auditVars, csvContent, geoVars>>

\* onChange of the currency select in the header (line 725); ReportGenerator,
\* when mounted, re-renders with the new currency prop (lines 136, 1174)
SetCurrencyCode(c) ==
    /\ derived
    /\ ~isCalculating
    /\ currencyCode # c
    /\ currencyCode' = c
    /\ reportData' = IF activeTab = "results"
                     THEN generateData(metrics, config, CURRENCIES[c])
                     ELSE reportData
    /\ UNCHANGED <<inputs, metrics, derived, activeTab, config, service, locVars,
                   auditVars, csvContent, geoVars>>

\* handleDownloadCSV (lines 146-167), clicked on the CSV button of the report
handleDownloadCSV ==
    /\ activeTab = "results"
    /\ csvContent' = csvText(reportData)
    /\ UNCHANGED <<inputs, metrics, derived, activeTab, repVars, service, locVars,
                   auditVars, currencyCode, geoVars>>

\* onChange of "City / Region" (line 841) and of "Country" (line 854)
SetLocationQuery(q) ==
    /\ derived
    /\ ~isCalculating
    /\ activeTab = "input"
    /\ locationQuery # q
    /\ locationQuery' = q
    /\ UNCHANGED <<inputs, metrics, derived, activeTab, repVars, service, country,
                   isAnalyzing, locationData, locationCall, auditVars,
                   exportVars, geoVars>>

SetCountry(c) ==
    /\ derived
    /\ ~isCalculating
    /\ activeTab = "input"
    /\ country # c
    /\ country' = c
    /\ UNCHANGED <<inputs, metrics, derived, activeTab, repVars, service, locationQuery,
                   isAnalyzing, locationData, locationCall, auditVars,
                   exportVars, geoVars>>

\* onChange of "Industry" (line 803)
SetIndustry(v) ==
    /\ derived
    /\ ~isCalculating
    /\ activeTab = "input"
    /\ industry # v
    /\ industry' = v
    /\ UNCHANGED <<inputs, metrics, derived, activeTab, repVars, service, locVars,
                   auditVars, exportVars, isLocating, geoCall>>

\* the service function App's import resolves to
callAnalyzeLocation(fullLocation, response) ==
    IF service = "geminiService" THEN analyzeLocation(fullLocation, response)
                                 ELSE fetchAnalyzeLocation(fullLocation, response)

callGetBankerAnalysis(response) ==
    IF service = "geminiService" THEN getBankerAnalysis(response)
                                 ELSE fetchGetBankerAnalysis(response)

\* handleLocationSearch up to its await (lines 504-514), clicked on the
\* search button, which is disabled by line 863
handleLocationSearch ==
    /\ derived
    /\ ~isCalculating
    /\ activeTab = "input"
    /\ ~(isAnalyzing \/ locationQuery = "" \/ country = "")
    /\ IF trim(locationQuery) = "" \/ trim(country) = ""
       THEN UNCHANGED <<isAnalyzing, locationData, locationCall>>
       ELSE /\ isAnalyzing' = TRUE
            /\ locationData' = Null
            /\ locationCall' = [ fullLocation |-> <<locationQuery, country>>,
                                 response |-> Pending ]
    /\ UNCHANGED <<inputs, metrics, derived, activeTab, repVars, service,
                   locationQuery, country, auditVars,
                   exportVars, geoVars>>

\* the remote side answers the location analysis
AnalysisResponds(response) ==
    /\ locationCall # Null
    /\ locationCall.response = Pending
    /\ locationCall' = [locationCall EXCEPT !.response = response]
    /\ UNCHANGED <<inputs, metrics, derived, activeTab, repVars, service,
                   locationQuery, country, isAnalyzing, locationData, auditVars,
                   exportVars, geoVars>>

\* handleLocationSearch after its await (lines 514-521)
handleLocationSearchResume ==
    /\ derived
    /\ locationCall # Null
    /\ locationCall.response # Pending
    /\ LET result == callAnalyzeLocation(locationCall.fullLocation, locationCall.response)
       IN locationData' = IF result.fulfilled THEN result.value ELSE locationData
    /\ isAnalyzing' = FALSE
    /\ locationCall' = Null
    /\ UNCHANGED <<inputs, metrics, derived, activeTab, repVars, service,
                   locationQuery, country, auditVars,
                   exportVars, geoVars>>

\* handleCalculateProfitability up to its await (lines 558-587), clicked on
\* the button of the input tab, which is disabled by line 945
handleCalculateProfitability ==
    /\ derived
    /\ ~isCalculating
    /\ activeTab = "input"
    /\ ~(trim(locationQuery) = "" \/ trim(country) = "")
    /\ IF trim(locationQuery) = "" \/ trim(country) = ""
       THEN UNCHANGED <<isCalculating, auditCall>>
       ELSE /\ isCalculating' = TRUE
            /\ auditCall' = [ metrics |-> metrics,
                              targetIndustry |-> IF industry = "" THEN "Retail Business"
                                                                  ELSE industry,
                              targetLocation |-> <<locationQuery, country>>,
                              detailedInputs |-> [ cogs |-> inputs.cogsPercent,
                                                   labor |-> inputs.laborPercent,
                                                   rent |-> inputs.rentMonthly,
                                                   marketing |-> inputs.marketingPercent,
                                                   franchiseFee |-> inputs.franchiseFee ],
                              minWait |-> Pending,
                              response |-> Pending ]
    /\ UNCHANGED <<inputs, metrics, derived, activeTab, repVars, service, locVars,
                   bankerData,
                   exportVars, geoVars>>

\* the 2500 ms timer of minWait fires (line 568)
MinWaitElapsed ==
    /\ auditCall # Null
    /\ auditCall.minWait = Pending
    /\ auditCall' = [auditCall EXCEPT !.minWait = Fulfilled(Null)]
    /\ UNCHANGED <<inputs, metrics, derived, activeTab, repVars, service, locVars,
                   isCalculating, bankerData,
                   exportVars, geoVars>>

\* the remote side answers the audit
AuditResponds(response) ==
    /\ auditCall # Null
    /\ auditCall.response = Pending
    /\ auditCall' = [auditCall EXCEPT !.response = response]
    /\ UNCHANGED <<inputs, metrics, derived, activeTab, repVars, service, locVars,
                   isCalculating, bankerData,
                   exportVars, geoVars>>

\* variant of PromiseAll: the audit alone decides
PromiseAll_NoTimer(minWait, analysisResult) == TRUE

\* Promise.all([minWait, analysisPromise]) has settled (line 587): it fulfils
\* when the timer and the audit have, and rejects as soon as the audit does
PromiseAll(minWait, analysisResult) ==
    analysisResult.fulfilled => minWait # Pending

\* handleCalculateProfitability after its await (lines 587-594): Promise.all
\* fulfils when the timer and the audit have, and rejects as soon as the
\* audit does; the results tab mounts ReportGenerator (line 1172)
handleCalculateProfitabilityResume(today) ==
    /\ derived
    /\ auditCall # Null
    /\ auditCall.response # Pending
    /\ LET analysisResult == callGetBankerAnalysis(auditCall.response)
       IN /\ PromiseAll(auditCall.minWait, analysisResult)
          /\ IF analysisResult.fulfilled
             THEN /\ bankerData' = analysisResult.value
                  /\ activeTab' = "results"
                  /\ config' = DefaultConfig(today)
                  /\ reportData' = generateData(metrics, config', currency)
             ELSE UNCHANGED <<bankerData, activeTab, repVars>>
    /\ isCalculating' = FALSE
    /\ auditCall' = Null
    /\ UNCHANGED <<inputs, metrics, derived, service, locVars,
                   exportVars, geoVars>>

\* handleUseMyLocation up to getCurrentPosition (lines 524-531), clicked on
\* the button of the input tab, which is disabled by line 820; without
\* navigator.geolocation it alerts and returns. started keeps the two
\* fields as they were at the click
handleUseMyLocation(geolocation) ==
    /\ derived
    /\ ~isCalculating
    /\ activeTab = "input"
    /\ ~isLocating
    /\ IF geolocation
       THEN /\ isLocating' = TRUE
            /\ geoCall' = [ position |-> Pending,
                            response |-> Pending,
                            started |-> [locationQuery |-> locationQuery,
                                         country |-> country] ]
       ELSE UNCHANGED <<isLocating, geoCall>>
    /\ UNCHANGED <<inputs, metrics, derived, activeTab, repVars, service, locVars,
                   auditVars, exportVars, industry>>

\* the browser delivers a position: the success callback starts and awaits
\* identifyLocationFromCoordinates (lines 531-534)
PositionObtained ==
    /\ geoCall # Null
    /\ geoCall.position = Pending
    /\ geoCall' = [geoCall EXCEPT !.position = Fulfilled(Null)]
    /\ UNCHANGED <<inputs, metrics, derived, activeTab, repVars, service, locVars,
                   auditVars, exportVars, industry, isLocating>>

\* the browser reports an error, the timeout of 10000 ms included: the error
\* callback (lines 542-546)
PositionError ==
    /\ geoCall # Null
    /\ geoCall.position = Pending
    /\ isLocating' = FALSE
    /\ geoCall' = Null
    /\ UNCHANGED <<inputs, metrics, derived, activeTab, repVars, service, locVars,
                   auditVars, exportVars, industry>>

\* the remote side answers the reverse geocode
GeocodeResponds(response) ==
    /\ geoCall # Null
    /\ geoCall.position # Pending
    /\ geoCall.response = Pending
    /\ geoCall' = [geoCall EXCEPT !.response = response]
    /\ UNCHANGED <<inputs, metrics, derived, activeTab, repVars, service, locVars,
                   auditVars, exportVars, industry, isLocating>>

\* result[name] is truthy: present and not the empty string
truthy(result, name) == name \in DOMAIN result /\ result[name] # ""

\* variant of assignIfTruthy: every present value is stored
assignIfTruthy_Always(result, name, current) ==
    IF name \in DOMAIN result THEN result[name] ELSE current

\* if (result.city) setLocationQuery(result.city) and its twin (lines 534-535)
assignIfTruthy(result, name, current) ==
    IF truthy(result, name) THEN result[name] ELSE current

\* the success callback after its await (lines 533-541): reading a property
\* of null throws, which the catch of line 536 handles
handleUseMyLocationResume ==
    /\ derived
    /\ geoCall # Null
    /\ geoCall.response # Pending
    /\ LET result == identifyLocationFromCoordinates(geoCall.response)
       IN IF ~result.fulfilled \/ result.value = Null
          THEN UNCHANGED <<locationQuery, country>>
          ELSE /\ locationQuery' = assignIfTruthy(result.value, "city", locationQuery)
               /\ country' = assignIfTruthy(result.value, "country", country)
    /\ isLocating' = FALSE
    /\ geoCall' = Null
    /\ UNCHANGED <<inputs, metrics, derived, activeTab, repVars, service,
                   isAnalyzing, locationData, locationCall, auditVars,
                   exportVars, industry>>

----------------------------------------------------------------------------
(* Specifications *)

InitApp(space, services) ==
    /\ inputs \in space
    /\ metrics = InitialMetrics
    /\ derived = FALSE
    /\ activeTab = "input"
    /\ config = Unmounted
    /\ reportData = <<>>
    /\ service \in services
    /\ locationQuery = ""
    /\ country = ""
    /\ isAnalyzing = FALSE
    /\ locationData = Null
    /\ locationCall = Null
    /\ isCalculating = FALSE
    /\ bankerData = Null
    /\ auditCall = Null
    /\ currencyCode = DEFAULT_CURRENCY
    /\ csvContent = <<>>
    /\ industry = ""
    /\ isLocating = FALSE
    /\ geoCall = Null

\* the metrics derivation over the input space
InitDerive == InitApp(InputSpace, {"geminiService"})

NextDerive ==
    \/ MetricsEffect
    \/ \E v \in DailyCustEdits : SetDailyCust(v)

SpecDerive == InitDerive /\ [][NextDerive]_vars

\* the projection generator over metrics and configurations
InitProject == InitApp(ProjInputSpace, {"geminiService"})

\* an audit, the only way to the results tab, for one location and with the
\* remote side failing
AuditFlow(responses) ==
    \/ SetLocationQuery("Pune")
    \/ SetCountry("India")
    \/ handleCalculateProfitability
    \/ MinWaitElapsed
    \/ \E r \in responses : AuditResponds(r)
    \/ \E d \in StartDates : handleCalculateProfitabilityResume(d)

NextProject ==
    \/ MetricsEffect
    \/ AuditFlow(AuditFailures)
    \/ \E tab \in {"input", "results"}, d \in StartDates : SetActiveTab(tab, d)
    \/ \E d \in StartDates : SetStartDate(d)
    \/ \E y \in Durations : SetDurationYears(y)
    \/ \E iv \in Intervals : SetInterval(iv)
    \/ \E g \in GrowthRates : SetGrowthRate(g)

SpecProject == InitProject /\ [][NextProject]_vars

\* the report and its export under the currencies
InitExport == InitApp(ExportInputSpace, {"geminiService"})

NextExport ==
    \/ MetricsEffect
    \/ AuditFlow(AuditFailures)
    \/ \E tab \in {"input", "results"}, d \in StartDates : SetActiveTab(tab, d)
    \/ \E y \in ExportDurations : SetDurationYears(y)
    \/ \E iv \in Intervals : SetInterval(iv)
    \/ \E c \in CurrencyCodes : SetCurrencyCode(c)
    \/ handleDownloadCSV

SpecExport == InitExport /\ [][NextExport]_vars

\* the input tab edited from the application's defaults
InitInputs == InitApp({DefaultInputs}, {"geminiService"})

NextInputs ==
    \/ MetricsEffect
    \/ \E e \in InputEdits : SetInput(e.field, e.value)
    \/ AuditFlow(AuditFailures)
    \/ \E tab \in {"input", "results"}, d \in StartDates : SetActiveTab(tab, d)

SpecInputs == InitInputs /\ [][NextInputs]_vars

\* the location search and the audit against the remote side, for both
\* service modules
InitRemote == InitApp({DefaultInputs}, Services)

NextRemote ==
    \/ MetricsEffect
    \/ \E v \in Industries : SetIndustry(v)
    \/ \E q \in LocationQueries : SetLocationQuery(q)
    \/ \E c \in Countries : SetCountry(c)
    \/ handleLocationSearch
    \/ \E r \in AnalysisResponses : AnalysisResponds(r)
    \/ handleLocationSearchResume
    \/ handleCalculateProfitability
    \/ MinWaitElapsed
    \/ \E r \in AuditResponses : AuditResponds(r)
    \/ \E d \in StartDates : handleCalculateProfitabilityResume(d)
    \/ \E tab \in {"input", "results"}, d \in StartDates : SetActiveTab(tab, d)

SpecRemote == InitRemote /\ [][NextRemote]_vars

\* the promise handleCalculateProfitability awaits has settled: the
\* enabling condition of handleCalculateProfitabilityResume
AwaitSettled ==
    /\ derived
    /\ auditCall # Null
    /\ auditCall.response # Pending
    /\ PromiseAll(auditCall.minWait, callGetBankerAnalysis(auditCall.response))

\* SpecRemote with the timer firing, the remote side settling every audit
\* request and the continuation after the await being run: weak fairness of
\* the three steps, the last one written out with its enabling condition
FairSpecRemote ==
    /\ SpecRemote
    /\ WF_vars(MinWaitElapsed)
    /\ WF_vars(\E r \in AuditResponses : AuditResponds(r))
    /\ \/ []<>(~AwaitSettled)
       \/ []<><<\E d \in StartDates : handleCalculateProfitabilityResume(d)>>_vars

\* the device-location lookup against the browser and the remote side
InitLocate == InitApp({DefaultInputs}, {"geminiService"})

NextLocate ==
    \/ MetricsEffect
    \/ \E q \in LocationQueries : SetLocationQuery(q)
    \/ \E c \in Countries : SetCountry(c)
    \/ \E geolocation \in BOOLEAN : handleUseMyLocation(geolocation)
    \/ PositionObtained
    \/ PositionError
    \/ \E r \in GeocodeResponses : GeocodeResponds(r)
    \/ handleUseMyLocationResume

SpecLocate == InitLocate /\ [][NextLocate]_vars

\* SpecLocate with the browser calling one of the two callbacks (the timeout
\* of line 547 bounds the wait), the remote side settling every geocode
\* request and the continuation after the await being run
FairSpecLocate ==
    /\ SpecLocate
    /\ WF_vars(PositionObtained \/ PositionError)
    /\ WF_vars(\E r \in GeocodeResponses : GeocodeResponds(r))
    /\ WF_vars(handleUseMyLocationResume)

----------------------------------------------------------------------------
(* Quantities the properties are stated with, taken from the inputs *)

Tenth == Norm(1, 10)

TotalVariablePercent ==
    Add(inputs.cogsPercent, Add(inputs.laborPercent,
        Add(inputs.royaltyPercent, inputs.marketingPercent)))

FixedMonthlySum ==
    Add(inputs.miscMonthly, Add(inputs.salariesMonthly, inputs.rentMonthly))

InvestmentSum ==
    Add(inputs.workingCapital, Add(inputs.equipment,
        Add(inputs.buildOut, inputs.franchiseFee)))

RevenueProduct == Mul(inputs.daysOpen, Mul(inputs.dailyCust, inputs.avgTicket))

\* avgTicket * (100 - totalVariablePercent) / 100
CustomerMargin ==
    Div(Mul(inputs.avgTicket, Sub(Hundred, TotalVariablePercent)), Hundred)

----------------------------------------------------------------------------
(* C1: the metrics derivation never divides by zero: every derived metric  *)
(* is a finite number, and when the operational-safety denominator is      *)
(* positive (totalVariablePercent < 90) but daysOpen = 0 or avgTicket = 0, *)
(* requiredDailyCustomersForMargin is the sentinel 0.                      *)
C1_NoDivisionByZero ==
    derived =>
        /\ \A f \in DOMAIN metrics : IsFinite(metrics[f])
        /\ ( /\ Lt(TotalVariablePercent, Num(90))
             /\ (inputs.daysOpen = Zero \/ inputs.avgTicket = Zero) )
           => metrics.requiredDailyCustomersForMargin = Zero

(* C2: payback rule: if netProfit > 0 then roiYears = totalInvestment /    *)
(* netProfit and breakEvenMonths = totalInvestment / monthlyNet; otherwise *)
(* both are exactly 0.                                                     *)
C2_PaybackRule ==
    derived =>
        IF Gt(metrics.netProfit, Zero)
        THEN /\ IsFinite(metrics.roiYears)
             /\ IsFinite(metrics.breakEvenMonths)
             /\ Mul(metrics.roiYears, metrics.netProfit) = metrics.totalInvestment
             /\ Mul(metrics.breakEvenMonths, metrics.monthlyNet) = metrics.totalInvestment
        ELSE /\ metrics.roiYears = Zero
             /\ metrics.breakEvenMonths = Zero

C2_Witness ==
    /\ derived
    /\ Gt(metrics.netProfit, Zero)
    /\ Gt(metrics.roiYears, Zero)
    /\ metrics.breakEvenMonths = Mul(Twelve, metrics.roiYears)

(* C3 as stated: if daysOpen * avgTicket * dailyCust = 0 then margin = 0   *)
(* and roiYears = 0.                                                       *)
C3_ZeroRevenueOriginal ==
    (derived /\ RevenueProduct = Zero) =>
        /\ metrics.margin = Zero
        /\ metrics.roiYears = Zero

(* C3 amended: if daysOpen * avgTicket * dailyCust = 0 then margin = 0;    *)
(* roiYears = 0 when the fixed monthly costs sum to a value >= 0, and      *)
(* roiYears = totalInvestment / (-12 * that sum) when the sum is negative. *)
C3_ZeroRevenue ==
    (derived /\ RevenueProduct = Zero) =>
        /\ metrics.margin = Zero
        /\ IF Lt(FixedMonthlySum, Zero)
           THEN /\ IsFinite(metrics.roiYears)
                /\ Mul(metrics.roiYears, Mul(Num(-12), FixedMonthlySum)) = InvestmentSum
           ELSE metrics.roiYears = Zero

C3_Witness ==
    /\ derived
    /\ RevenueProduct = Zero
    /\ Lt(FixedMonthlySum, Zero)
    /\ metrics.roiYears # Zero
    /\ metrics.margin = Zero

(* C4: if totalVariablePercent >= 90 then requiredDailyCustomersForMargin  *)
(* is 0, whatever the fixed costs, avgTicket and daysOpen.                 *)
C4_UnattainableMargin ==
    (derived /\ ~Lt(TotalVariablePercent, Num(90))) =>
        metrics.requiredDailyCustomersForMargin = Zero

C4_Witness ==
    /\ derived
    /\ TotalVariablePercent = Num(90)
    /\ Gt(FixedMonthlySum, Zero)
    /\ Gt(inputs.daysOpen, Zero)
    /\ Gt(inputs.avgTicket, Zero)
    /\ metrics.requiredDailyCustomersForMargin = Zero

(* C5: with no clamping of negative values or of percentages above 100:    *)
(* totalInvestment is the sum of the four investment inputs, annualRevenue *)
(* = avgTicket * dailyCust * daysOpen, annualExpenses = annualRevenue *    *)
(* totalVariablePercent / 100 + 12 * fixed monthly costs, netProfit =      *)
(* annualRevenue - annualExpenses and monthlyNet = netProfit / 12.         *)
C5_Totals ==
    derived =>
        /\ metrics.totalInvestment = InvestmentSum
        /\ metrics.annualRevenue = RevenueProduct
        /\ metrics.annualExpenses =
               Add(Div(Mul(RevenueProduct, TotalVariablePercent), Hundred),
                   Mul(Twelve, FixedMonthlySum))
        /\ Add(metrics.netProfit, metrics.annualExpenses) = metrics.annualRevenue
        /\ Mul(metrics.monthlyNet, Twelve) = metrics.netProfit

C5_Witness ==
    /\ derived
    /\ Gt(TotalVariablePercent, Hundred)
    /\ Lt(metrics.annualRevenue, Zero)
    /\ Lt(FixedMonthlySum, Zero)
    /\ Gt(metrics.netProfit, Zero)

(* C6: requiredDailyCustomers = ((totalInvestment * 0.10 + fixed monthly   *)
(* costs) / marginPerCustomer) / (daysOpen / 12) exactly when              *)
(* marginPerCustomer = avgTicket * (1 - totalVariablePercent/100) > 0 and  *)
(* daysOpen > 0; in every other case it is 0.                              *)
C6_WealthTargetGuard ==
    derived =>
        IF Gt(CustomerMargin, Zero) /\ Gt(inputs.daysOpen, Zero)
        THEN /\ IsFinite(metrics.requiredDailyCustomers)
             /\ Mul(Mul(metrics.requiredDailyCustomers, CustomerMargin), inputs.daysOpen)
                    = Mul(Twelve, Add(Mul(InvestmentSum, Tenth), FixedMonthlySum))
        ELSE metrics.requiredDailyCustomers = Zero

C6_Witness ==
    /\ derived
    /\ Gt(CustomerMargin, Zero)
    /\ Gt(inputs.daysOpen, Zero)
    /\ Gt(metrics.requiredDailyCustomers, Zero)

(* C7: with marginPerCustomer > 0 and daysOpen > 0, the metrics derived    *)
(* with dailyCust set to the computed requiredDailyCustomers (all other    *)
(* inputs unchanged) have monthlyNet equal to 10% of totalInvestment.      *)
C7_WealthTargetInversion ==
    ( /\ derived
      /\ Gt(CustomerMargin, Zero)
      /\ Gt(inputs.daysOpen, Zero)
      /\ inputs.dailyCust = metrics.requiredDailyCustomers )
    => metrics.monthlyNet = Mul(InvestmentSum, Tenth)

C7_Witness ==
    /\ derived
    /\ Gt(CustomerMargin, Zero)
    /\ Gt(inputs.daysOpen, Zero)
    /\ inputs.dailyCust = metrics.requiredDailyCustomers
    /\ inputs.dailyCust.d # 1
    /\ Gt(metrics.monthlyNet, Zero)

(* C8: with totalVariablePercent < 90, daysOpen > 0 and avgTicket > 0, the *)
(* metrics derived with dailyCust set to the computed                      *)
(* requiredDailyCustomersForMargin (all other inputs unchanged) have       *)
(* netProfit equal to 10% of annualRevenue, and margin = 10 when           *)
(* annualRevenue > 0.                                                      *)
C8_MarginTargetInversion ==
    ( /\ derived
      /\ Lt(TotalVariablePercent, Num(90))
      /\ Gt(inputs.daysOpen, Zero)
      /\ Gt(inputs.avgTicket, Zero)
      /\ inputs.dailyCust = metrics.requiredDailyCustomersForMargin )
    => /\ metrics.netProfit = Mul(metrics.annualRevenue, Tenth)
       /\ Gt(metrics.annualRevenue, Zero) => metrics.margin = Num(10)

C8_Witness ==
    /\ derived
    /\ Lt(TotalVariablePercent, Num(90))
    /\ Gt(inputs.daysOpen, Zero)
    /\ Gt(inputs.avgTicket, Zero)
    /\ inputs.dailyCust = metrics.requiredDailyCustomersForMargin
    /\ inputs.dailyCust.d # 1
    /\ Gt(metrics.annualRevenue, Zero)
    /\ metrics.margin = Num(10)

----------------------------------------------------------------------------
(* Properties of the projection *)

\* cashBalance of row n = -totalInvestment + profit of rows 1..n, stated row
\* by row: each balance is the one before it (-totalInvestment before row 1)
\* plus the profit of the row
CashIsRunningSum ==
    \A n \in 1 .. Len(reportData) :
        reportData[n].cashBalance =
            Add(IF n = 1 THEN Neg(metrics.totalInvestment)
                         ELSE reportData[n - 1].cashBalance,
                reportData[n].profit)

\* row n is strictly below -totalInvestment and below the row before it
CashFalls(n) ==
    /\ Lt(reportData[n].cashBalance, Neg(metrics.totalInvestment))
    /\ n > 1 => Lt(reportData[n].cashBalance, reportData[n - 1].cashBalance)

\* the rows that lie in the first projection year
FirstYearRows ==
    { n \in 1 .. Len(reportData) :
        IF config.interval = "monthly" THEN n <= 12 ELSE n = 1 }

(* C9: the generated sequence has durationYears * 12 rows for the monthly  *)
(* interval and ceil(totalMonths / 12) rows for the yearly interval;       *)
(* durationYears = 0 gives the empty sequence, durationYears = 1 gives 12  *)
(* monthly rows or 1 yearly row.                                           *)
C9_ProjectionLength ==
    activeTab = "results" =>
        LET totalMonths == config.durationYears * 12
        IN /\ config.interval = "monthly" => Len(reportData) = totalMonths
           /\ config.interval = "yearly" => Len(reportData) = (totalMonths + 11) \div 12
           /\ config.durationYears = 0 => reportData = <<>>
           /\ config.durationYears = 1 =>
                  Len(reportData) = IF config.interval = "monthly" THEN 12 ELSE 1

C9_Witness ==
    /\ activeTab = "results"
    /\ config.interval = "yearly"
    /\ config.durationYears >= 2
    /\ Len(reportData) = config.durationYears

(* C10 as stated: cashBalance of row n is -totalInvestment plus the sum of *)
(* the profit of rows 1..n; with negative netProfit it is strictly below   *)
(* -totalInvestment on every row and decreases from row to row.            *)
C10_RunningCashOriginal ==
    activeTab = "results" =>
        /\ CashIsRunningSum
        /\ Lt(metrics.netProfit, Zero) =>
               \A n \in 1 .. Len(reportData) : CashFalls(n)

(* C10 amended: cashBalance of row n is -totalInvestment plus the sum of   *)
(* the profit of rows 1..n, never clamped; with negative netProfit it is   *)
(* strictly below -totalInvestment and decreasing on every row of the      *)
(* first projection year, and on every row when the growth rate is 0.      *)
C10_RunningCash ==
    activeTab = "results" =>
        /\ CashIsRunningSum
        /\ Lt(metrics.netProfit, Zero) =>
               /\ \A n \in FirstYearRows : CashFalls(n)
               /\ config.growthRate = Zero =>
                      \A n \in 1 .. Len(reportData) : CashFalls(n)

C10_Witness ==
    /\ activeTab = "results"
    /\ Lt(metrics.netProfit, Zero)
    /\ Gt(metrics.annualRevenue, Zero)
    /\ config.growthRate = Zero
    /\ Len(reportData) >= 24
    /\ Lt(reportData[24].cashBalance, reportData[12].cashBalance)

(* C11: whenever the projection has at least one row, in the monthly and   *)
(* in the yearly interval, the cashBalance of the first row equals         *)
(* -totalInvestment plus the profit of that first row.                     *)
C11_FirstRowCash ==
    (activeTab = "results" /\ Len(reportData) >= 1) =>
        reportData[1].cashBalance =
            Add(Neg(metrics.totalInvestment), reportData[1].profit)

C11_Witness ==
    /\ activeTab = "results"
    /\ config.interval = "yearly"
    /\ config.growthRate = Num(5)
    /\ Len(reportData) >= 1
    /\ Gt(reportData[1].profit, Zero)
    /\ Gt(metrics.totalInvestment, Zero)
    /\ reportData[1].cashBalance = Zero

\* 1 + rate / 100 for the growth rate of the current configuration
RateFactor == Add(Num(1), Div(config.growthRate, Hundred))

\* the row of the first month of projection year k (k = 1 is the first year)
FirstMonthOfYear(k) == 12 * (k - 1) + 1

(* C12 as stated: in the monthly projection with growth rate > 0, for      *)
(* every metrics record the revenue of the first month of year k+1 is      *)
(* strictly greater than the revenue of the first month of year k and      *)
(* equals it multiplied by 1 + rate/100.                                   *)
C12_GrowthMonotonicityOriginal ==
    (activeTab = "results" /\ config.interval = "monthly" /\ Gt(config.growthRate, Zero)) =>
        \A k \in 1 .. config.durationYears - 1 :
            /\ Gt(reportData[FirstMonthOfYear(k + 1)].revenue,
                  reportData[FirstMonthOfYear(k)].revenue)
            /\ reportData[FirstMonthOfYear(k + 1)].revenue =
                   Mul(reportData[FirstMonthOfYear(k)].revenue, RateFactor)

(* C12 amended: in the monthly projection with growth rate > 0, the        *)
(* revenue of the first month of year k+1 equals the revenue of the first  *)
(* month of year k multiplied by 1 + rate/100; it is strictly greater when *)
(* annualRevenue > 0 and equal (both 0) when annualRevenue = 0.            *)
C12_GrowthMonotonicity ==
    (activeTab = "results" /\ config.interval = "monthly" /\ Gt(config.growthRate, Zero)) =>
        \A k \in 1 .. config.durationYears - 1 :
            /\ reportData[FirstMonthOfYear(k + 1)].revenue =
                   Mul(reportData[FirstMonthOfYear(k)].revenue, RateFactor)
            /\ Gt(metrics.annualRevenue, Zero) =>
                   Gt(reportData[FirstMonthOfYear(k + 1)].revenue,
                      reportData[FirstMonthOfYear(k)].revenue)
            /\ metrics.annualRevenue = Zero =>
                   /\ reportData[FirstMonthOfYear(k + 1)].revenue = Zero
                   /\ reportData[FirstMonthOfYear(k)].revenue = Zero

C12_Witness ==
    /\ activeTab = "results"
    /\ config.interval = "monthly"
    /\ config.growthRate = Num(10)
    /\ config.durationYears = 3
    /\ Gt(metrics.annualRevenue, Zero)
    /\ Gt(reportData[25].revenue, reportData[13].revenue)
    /\ Gt(reportData[13].revenue, reportData[1].revenue)

(* C13: in a yearly projection with durationYears = 3 and growth rate 10%, *)
(* the revenue of the Year 2 row is the revenue of the Year 1 row times    *)
(* 1.10 and the revenue of the Year 3 row is that of Year 1 times 1.21.    *)
C13_YearlyGrowth ==
    ( /\ activeTab = "results"
      /\ config.interval = "yearly"
      /\ config.durationYears = 3
      /\ config.growthRate = Num(10) )
    => /\ Len(reportData) = 3
       /\ reportData[2].revenue = Mul(reportData[1].revenue, Norm(110, 100))
       /\ reportData[3].revenue = Mul(reportData[1].revenue, Norm(121, 100))

C13_Witness ==
    /\ activeTab = "results"
    /\ config.interval = "yearly"
    /\ config.durationYears = 3
    /\ config.growthRate = Num(10)
    /\ reportData[1].revenue = Num(12)
    /\ reportData[3].revenue = Norm(1452, 100)

(* C14: in the monthly projection the expense of month index i (row i+1)  *)
(* is (annualExpenses / 12) * (1 + (growth rate * 0.5 / 100) * floor(i /   *)
(* 12)): linear growth per year at half the revenue growth rate, constant  *)
(* within a year.                                                          *)
C14_ExpenseGrowth ==
    (activeTab = "results" /\ config.interval = "monthly") =>
        \A i \in 0 .. Len(reportData) - 1 :
            reportData[i + 1].expenses =
                Mul(Div(metrics.annualExpenses, Twelve),
                    Add(Num(1), Mul(Div(Mul(config.growthRate, Norm(1, 2)), Hundred),
                                    Num(i \div 12))))

C14_Witness ==
    /\ activeTab = "results"
    /\ config.interval = "monthly"
    /\ config.durationYears >= 3
    /\ Gt(config.growthRate, Zero)
    /\ Gt(metrics.annualExpenses, Zero)
    /\ reportData[12].expenses = reportData[1].expenses
    /\ Gt(reportData[13].expenses, reportData[12].expenses)
    /\ Sub(reportData[25].expenses, reportData[13].expenses) =
           Sub(reportData[13].expenses, reportData[1].expenses)

(* C18: the projection is restartable: after any sequence of changes of    *)
(* start date, duration, interval and growth rate, the generated rows are  *)
(* the rows generateData yields for the current metrics and the current    *)
(* configuration, whatever was generated before; no accumulator and no     *)
(* cash balance is carried over: the first row starts from                 *)
(* -totalInvestment and from empty yearly accumulators.                    *)
C18_Restartable ==
    activeTab = "results" =>
        /\ reportData = generateData(metrics, config, currency)
        /\ Len(reportData) >= 1 =>
               /\ Sub(reportData[1].cashBalance, reportData[1].profit)
                      = Neg(metrics.totalInvestment)
               /\ reportData[1].revenue =
                      IF config.interval = "yearly" THEN metrics.annualRevenue
                      ELSE Div(metrics.annualRevenue, Twelve)
               /\ reportData[1].expenses =
                      IF config.interval = "yearly" THEN metrics.annualExpenses
                      ELSE Div(metrics.annualExpenses, Twelve)

C18_Witness ==
    /\ activeTab = "results"
    /\ config.interval = "yearly"
    /\ config.durationYears = 2
    /\ config.growthRate = Num(100)
    /\ config.startDate.month = 11
    /\ Len(reportData) = 2
    /\ Gt(metrics.annualRevenue, Zero)
    /\ reportData[1].revenue = metrics.annualRevenue
    /\ reportData[2].revenue = Mul(Num(2), metrics.annualRevenue)

\* the sum of a field over rows lo .. hi of a sequence of rows
RECURSIVE SumRows(_, _, _, _)
SumRows(rows, field, lo, hi) ==
    IF lo > hi THEN Zero ELSE Add(SumRows(rows, field, lo, hi - 1), rows[hi][field])

(* C26: monthly and yearly views agree: for the same metrics and           *)
(* configuration, yearly row k has revenue, expenses and profit equal to   *)
(* the sums of those fields over monthly rows 12(k-1)+1 .. 12k, is         *)
(* labelled "Year k" and has the cashBalance of monthly row 12k; no year   *)
(* includes amounts of a previous year.                                    *)
C26_ViewsAgree ==
    (activeTab = "results" /\ config.interval = "yearly") =>
        LET monthly == generateData(metrics, [config EXCEPT !.interval = "monthly"], currency)
        IN /\ Len(monthly) = 12 * Len(reportData)
           /\ \A k \in 1 .. Len(reportData) :
                  /\ reportData[k].period = <<"Year", k>>
                  /\ reportData[k].revenue = SumRows(monthly, "revenue", 12 * (k - 1) + 1, 12 * k)
                  /\ reportData[k].expenses = SumRows(monthly, "expenses", 12 * (k - 1) + 1, 12 * k)
                  /\ reportData[k].profit = SumRows(monthly, "profit", 12 * (k - 1) + 1, 12 * k)
                  /\ reportData[k].cashBalance = monthly[12 * k].cashBalance

C26_Witness ==
    /\ activeTab = "results"
    /\ config.interval = "yearly"
    /\ config.durationYears = 3
    /\ config.growthRate = Num(5)
    /\ Len(reportData) = 3
    /\ reportData[3].period = <<"Year", 3>>
    /\ Gt(reportData[3].revenue, reportData[2].revenue)
    /\ Gt(reportData[2].expenses, reportData[1].expenses)

----------------------------------------------------------------------------
(* Properties of the export and of the currency *)

\* the positions of a token in a text
Positions(text, token) == { i \in DOMAIN text : text[i] = token }

\* the positions before the first token of each line of a text (line 0 is
\* the first line), as a function of the line number
LineStarts(text) ==
    LET breaks == Positions(text, "\n")
    IN [k \in 0 .. Cardinality(breaks) |->
          IF k = 0 THEN 0
          ELSE CHOOSE p \in breaks : Cardinality({ q \in breaks : q <= p }) = k]

\* the positions after the last token of each line
LineEnds(text) ==
    LET starts == LineStarts(text)
        last == Cardinality(Positions(text, "\n"))
    IN [k \in 0 .. last |-> IF k = last THEN Len(text) + 1 ELSE starts[k + 1]]

\* the number of delimited columns of each line
Columns(text) ==
    LET starts == LineStarts(text)
        ends == LineEnds(text)
        commas == Positions(text, ",")
    IN [k \in DOMAIN starts |->
          Cardinality({ i \in commas : starts[k] < i /\ i < ends[k] }) + 1]

(* C24: the exported table has the header row Period, Date, Revenue,       *)
(* Expenses, Net Profit, Cash Balance first, followed by exactly one line  *)
(* per generated row in sequence order (1 + sequence length lines), each   *)
(* line having exactly 6 delimited columns.                                *)
C24_CsvShape ==
    [][ csvContent' # csvContent =>
          LET text == csvContent'
              starts == LineStarts(text)
              ends == LineEnds(text)
              columns == Columns(text)
              lines == Cardinality(DOMAIN starts)
          IN /\ lines = 1 + Len(reportData)
             /\ SubSeq(text, 1, ends[0] - 1) =
                    << "Period", ",", "Date", ",", "Revenue", ",", "Expenses", ",",
                       "Net Profit", ",", "Cash Balance" >>
             /\ \A k \in DOMAIN columns : columns[k] = 6
             /\ \A k \in 1 .. lines - 1 :
                    /\ text[starts[k] + 1] = reportData[k].period[1]
                    /\ text[starts[k] + 3] = ToString(k)
      ]_vars

C24_Witness ==
    /\ csvContent # <<>>
    /\ Cardinality(Positions(csvContent, "\n")) = 24
    /\ Positions(csvContent, "Dez.") # {}
    /\ Positions(csvContent, "-") # {}
    /\ Cardinality(Positions(csvContent, ",")) = 125

(* C25: changing the selected currency leaves every metrics field and the  *)
(* revenue, expenses, profit and cashBalance of every projection row       *)
(* unchanged: the currency affects labels and formatting only.             *)
C25_CurrencyFrame ==
    [][ currencyCode' # currencyCode =>
          /\ metrics' = metrics
          /\ inputs' = inputs
          /\ Len(reportData') = Len(reportData)
          /\ \A n \in 1 .. Len(reportData) :
                 /\ reportData'[n].revenue = reportData[n].revenue
                 /\ reportData'[n].expenses = reportData[n].expenses
                 /\ reportData'[n].profit = reportData[n].profit
                 /\ reportData'[n].cashBalance = reportData[n].cashBalance
      ]_vars

C25_Witness ==
    /\ activeTab = "results"
    /\ currencyCode = "EUR"
    /\ config.interval = "monthly"
    /\ Len(reportData) = 24
    /\ reportData[1].date[1] = "Dez."
    /\ Gt(reportData[1].revenue, Zero)

----------------------------------------------------------------------------
(* Scenarios from the application's default inputs *)

\* the inputs of the loss scenario
LossScenario ==
    [ franchiseFee |-> Num(500000), buildOut |-> Num(300000),
      equipment |-> Num(75000), workingCapital |-> Num(50000),
      contractTerm |-> Num(10), avgTicket |-> Num(100), dailyCust |-> Num(50),
      daysOpen |-> Num(320), cogsPercent |-> Num(30), laborPercent |-> Num(25),
      royaltyPercent |-> Num(6), marketingPercent |-> Num(2),
      rentMonthly |-> Num(50000), salariesMonthly |-> Num(30000),
      miscMonthly |-> Num(20000) ]

\* the inputs of the profit scenario
ProfitScenario ==
    [LossScenario EXCEPT !.rentMonthly = Num(5000), !.salariesMonthly = Num(3000),
                         !.miscMonthly = Num(2000)]

\* x, a finite number, has the decimal expansion whose digits up to the last
\* stated decimal are n / 10^decimals: n/scale <= x < (n + 1)/scale
HasDigits(x, n, scale) ==
    /\ IsFinite(x)
    /\ ~Lt(x, Norm(n, scale))
    /\ Lt(x, Norm(n + 1, scale))

(* C15: with the application's default inputs (the loss scenario) the      *)
(* derived metrics are totalInvestment = 925000, annualRevenue = 1600000,  *)
(* annualExpenses = 2208000, netProfit = -608000, roiYears = 0,            *)
(* breakEvenMonths = 0 and margin = -38.                                   *)
C15_LossScenario ==
    (derived /\ inputs = LossScenario) =>
        /\ metrics.totalInvestment = Num(925000)
        /\ metrics.annualRevenue = Num(1600000)
        /\ metrics.annualExpenses = Num(2208000)
        /\ metrics.netProfit = Num(-608000)
        /\ metrics.roiYears = Zero
        /\ metrics.breakEvenMonths = Zero
        /\ metrics.margin = Num(-38)

C15_Witness ==
    /\ derived
    /\ inputs = LossScenario
    /\ Lt(metrics.netProfit, Zero)
    /\ Lt(metrics.margin, Zero)
    /\ metrics # InitialMetrics

(* C16: with the default inputs but rentMonthly = 5000, salariesMonthly =  *)
(* 3000 and miscMonthly = 2000 (the profit scenario) the derived metrics   *)
(* are annualExpenses = 1128000, netProfit = 472000, monthlyNet =          *)
(* 39333.3..., roiYears = 1.959... and breakEvenMonths = 23.51..., the     *)
(* digits up to the last stated decimal being those of the value.          *)
C16_ProfitScenario ==
    (derived /\ inputs = ProfitScenario) =>
        /\ metrics.annualExpenses = Num(1128000)
        /\ metrics.netProfit = Num(472000)
        /\ HasDigits(metrics.monthlyNet, 393333, 10)
        /\ HasDigits(metrics.roiYears, 1959, 1000)
        /\ HasDigits(metrics.breakEvenMonths, 2351, 100)

C16_Witness ==
    /\ derived
    /\ inputs = ProfitScenario
    /\ Gt(metrics.netProfit, Zero)
    /\ Gt(metrics.roiYears, Num(1))
    /\ Lt(metrics.roiYears, Num(2))

(* C17: after any sequence of input edits, once the metrics effect has run *)
(* the stored metrics are the derivation of the current inputs and of      *)
(* nothing else; the metrics handed to an audit request and the metrics    *)
(* the projection is generated from are those of the current inputs, never *)
(* those of an earlier input state.                                        *)
C17_MetricsCurrent ==
    /\ derived => metrics = DeriveMetrics(inputs)
    /\ auditCall # Null =>
           /\ auditCall.metrics = DeriveMetrics(inputs)
           /\ auditCall.metrics.contractTerm = inputs.contractTerm
           /\ auditCall.detailedInputs.rent = inputs.rentMonthly
    /\ activeTab = "results" =>
           /\ derived
           /\ reportData # <<>>
           /\ reportData[1].revenue = Div(DeriveMetrics(inputs).annualRevenue, Twelve)
           /\ reportData[1].expenses = Div(DeriveMetrics(inputs).annualExpenses, Twelve)

C17_Witness ==
    /\ derived
    /\ inputs.contractTerm = Num(5)
    /\ inputs.rentMonthly = Num(5000)
    /\ inputs.dailyCust = Zero
    /\ metrics.contractTerm = Num(5)
    /\ metrics.annualRevenue = Zero
    /\ activeTab = "results"
    /\ reportData[1].revenue = Zero
    /\ Gt(reportData[1].expenses, Zero)

----------------------------------------------------------------------------
(* Properties of the remote operations *)

C20_AuditFallback ==
    /\ [] ( bankerData # Null =>
              /\ bankerData.verdict \in {"Green Light", "Yellow Light", "Red Light"}
              /\ Len(bankerData.recommendations) = 3 )
    /\ [][ ( /\ auditCall # Null
             /\ auditCall.response # Pending
             /\ (auditCall.response.kind = "error" \/ auditCall.response.body = Null)
             /\ auditCall' = Null )
           => /\ bankerData' # Null
              /\ bankerData'.verdict = "Yellow Light"
              /\ bankerData'.recommendations =
                     << "Increase working capital buffer",
                        "Review lease terms for hidden CAM charges",
                        "Stress test for 15% revenue drop" >>
         ]_vars

(* C22: requesting an audit while mandatory context is absent (location or *)
(* industry missing) is rejected before any remote call: no audit request  *)
(* is issued and the calculating flag does not become true.                *)
C22_Validation ==
    [][ ( /\ ~isCalculating
          /\ (trim(locationQuery) = "" \/ trim(country) = "" \/ industry = "") )
        => /\ ~isCalculating'
           /\ auditCall' = Null
           /\ bankerData' = bankerData
      ]_vars

(* C28: the results view being active implies that an audit record is      *)
(* stored (bankerData is non-null), and a stored record is never cleared.  *)
C28_ResultsHaveRecord ==
    /\ [] (activeTab = "results" => bankerData # Null)
    /\ [][bankerData # Null => bankerData' # Null]_vars

(* C29: every started audit eventually clears the calculating flag,        *)
(* whether the audit call resolves or rejects; the switch to the results   *)
(* view for that audit happens only after both the minimum-wait timer and  *)
(* the audit call have completed, and not at all if the audit call         *)
(* rejects.                                                                *)
C29_AuditCompletes ==
    /\ isCalculating ~> ~isCalculating
    /\ [][ (isCalculating /\ activeTab' = "results")
           => /\ auditCall.minWait # Pending
              /\ auditCall.response # Pending
              /\ callGetBankerAnalysis(auditCall.response).fulfilled
         ]_vars

C29_Witness ==
    /\ service = "fetch"
    /\ activeTab = "results"
    /\ ~isCalculating
    /\ auditCall = Null
    /\ bankerData # Null
    /\ bankerData.verdict = "Green Light"

----------------------------------------------------------------------------
(* Properties of the device-location lookup *)

(* C21: when the remote reverse geocode fails or returns no text,          *)
(* identifyLocationFromCoordinates returns city = "" and country = "" and  *)
(* does not raise; in every outcome both fields of its result are defined  *)
(* strings.                                                                *)
C21_GeocodeResult ==
    (geoCall # Null /\ geoCall.response # Pending) =>
        LET result == identifyLocationFromCoordinates(geoCall.response)
        IN /\ result.fulfilled
           /\ (geoCall.response.kind = "error" \/ geoCall.response.body = Null)
                  => result.value = [city |-> "", country |-> ""]
           /\ {"city", "country"} \subseteq DOMAIN result.value

(* C23: a response belonging to an earlier request never overwrites state  *)
(* written by a later request or by a later user edit of the same field:   *)
(* a lookup that ends leaves a field edited since its start as it is.      *)
C23_Supersedes ==
    [][ (geoCall # Null /\ geoCall' = Null)
        => /\ locationQuery # geoCall.started.locationQuery
                  => locationQuery' = locationQuery
           /\ country # geoCall.started.country => country' = country
      ]_vars

(* C30: every started device-location lookup eventually clears the         *)
(* locating flag in each outcome (position obtained and geocode succeeds,  *)
(* geocode fails, geolocation error or timeout); a lookup result whose     *)
(* city (respectively country) is empty leaves the current city            *)
(* (respectively country) field unchanged.                                 *)
C30_LookupCompletes ==
    /\ isLocating ~> ~isLocating
    /\ [][ (geoCall # Null /\ geoCall.response # Pending /\ geoCall' = Null)
           => LET result == identifyLocationFromCoordinates(geoCall.response).value
              IN /\ ("city" \in DOMAIN result /\ result.city = "")
                        => locationQuery' = locationQuery
                 /\ ("country" \in DOMAIN result /\ result.country = "")
                        => country' = country
         ]_vars

C30_Witness ==
    /\ isLocating
    /\ geoCall # Null
    /\ geoCall.position # Pending
    /\ geoCall.response = [kind |-> "ok", body |-> [city |-> "", country |-> "India"]]
    /\ locationQuery = "Pune"
    /\ country = ""

====
